---- MODULE Spec2Model ----
(***************************************************************************)
(* A model of mujoco_py/builder.py: the cross-process build-and-load       *)
(* pipeline of the cymj extension (load_cython_ext and the extension       *)
(* builders), the runtime callback compiler (build_callback_fn) and the    *)
(* platform resolver (get_nvidia_lib_dir and the platform switch).         *)
(*                                                                         *)
(* External collaborators are modelled by their contracts:                 *)
(*   - lockfile.LockFile is a machine-wide mutex on one fixed path; its    *)
(*     __enter__ blocks until the lock is free and its __exit__ releases   *)
(*     it on every way out of the with-block;                              *)
(*   - the native toolchain (cythonize and distutils) either raises or     *)
(*     leaves a completely linked shared object at its output path; while  *)
(*     it runs that path may hold a partly written file; an output that is *)
(*     already complete is up to date and is left as it is;                *)
(*   - os.rename and shutil.move inside one directory tree replace the     *)
(*     target atomically.                                                  *)
(***************************************************************************)
EXTENDS Integers, Sequences, FiniteSets, TLC

(***************************************************************************)
(* Bounds of the model.                                                    *)
(***************************************************************************)
NProcs == 2

Procs == 1..NProcs

\* At most this many directories exist among those the resolver looks at
MaxDirs == 3

\* At most this many entries in a search-path variable
MaxEntries == 2

\* At most this many userdata names
MaxNames == 2

VARIABLES
    platform,   \* sys.platform of the machine
    disk,       \* the files of the generated/ tree: path -> file
    lock,       \* holder of LockFile(lockpath), 0 when free
    clock,      \* the file system's time, for modification times
    nbuilds,    \* number of builder.build() calls started so far
    pc,         \* per process: position in load_cython_ext
    force,      \* per process: MUJOCO_PY_FORCE_REBUILD is set
    Builder,    \* per process: the builder class the resolver picked
    mod,        \* per process: the file loaded as module cymj, or NoFile
    exc,        \* per process: the exception in flight or raised
    bid,        \* per process: number of its current build() call
    step,       \* per process: index of the next post-link fixup
    hist,       \* per process: what the call has done so far
    \* build_callback_fn
    fname,      \* per process: the module name drawn at line 467, or <<>>
    pending,    \* per process: files build_fn_cleanup has still to remove
    ptr,        \* per process: the pointer returned, 0 before
    debug,      \* MUJOCO_PY_DEBUG_FN_BUILDER is set
    kept,       \* per process: a removal of its cleanup was refused
    \* the compilation unit of build_callback_fn
    function_string,  \* argument
    userdata_names,   \* argument
    source_string,    \* the text built at lines 468-473
    spc,              \* position in lines 463-473
    enum_i,           \* the index of the loop of lines 470-471
    \* the platform resolver
    environ,    \* os.environ, the variables the resolver reads
    nvidia_smi, \* "type nvidia-smi" succeeds
    usr_dirs,   \* the directories that exist among those the resolver looks at
    resolved,   \* the builder class chosen, or the exception raised
    rpc,        \* position in lines 65-85
    \* manually_link_libraries called on its own
    returned,   \* per process: number of its invocations that have returned
    \* the paths of a builder
    config,     \* per builder: library version, interpreter version, class
    layout      \* per builder: its artifact path and scratch directory

loadVars == <<platform, disk, lock, clock, nbuilds, pc, force, Builder, mod,
              exc, bid, step, hist>>

fnVars == <<fname, pending, ptr, debug, kept>>

srcVars == <<function_string, userdata_names, source_string, spc, enum_i>>

platVars == <<environ, nvidia_smi, usr_dirs, resolved, rpc>>

mlVars == <<returned>>

pathVars == <<config, layout>>

\* What load_cython_ext past its platform switch leaves alone
rest == <<fnVars, srcVars, platVars, mlVars, pathVars>>

vars == <<loadVars, fnVars, srcVars, platVars, mlVars, pathVars>>

\* The parts of the module that a specification does not run stand still
FnIdle ==
    /\ fname = [p \in Procs |-> <<>>]
    /\ pending = [p \in Procs |-> {}]
    /\ ptr = [p \in Procs |-> 0]
    /\ debug = FALSE
    /\ kept = [p \in Procs |-> FALSE]

SrcIdle ==
    /\ function_string = <<>>
    /\ userdata_names = <<>>
    /\ source_string = <<>>
    /\ spc = "idle"
    /\ enum_i = 0

PlatIdle ==
    /\ environ = <<>>
    /\ nvidia_smi = FALSE
    /\ usr_dirs = {}
    /\ resolved = "none"
    /\ rpc = "idle"

MlIdle == returned = [p \in Procs |-> 0]

PathIdle ==
    /\ config = <<>>
    /\ layout = <<>>

(***************************************************************************)
(* Files.  A file is absent or present; a present file is complete (all of *)
(* its bytes are written) or not, carries the set of post-link fixups      *)
(* applied to it, loads or does not load once complete, and remembers the  *)
(* build() call that published it (0: it was there before any call).       *)
(***************************************************************************)
NoFile == [exists |-> FALSE, complete |-> FALSE, fixes |-> {}, loads |-> FALSE,
           id |-> 0, mtime |-> 0]

\* builder.py:263-336, the builder classes of each platform
BuildersOf(plat) ==
    CASE plat = "linux"  -> {"linuxcpuextensionbuilder", "linuxgpuextensionbuilder"}
      [] plat = "darwin" -> {"macextensionbuilder"}
      [] plat = "win32"  -> {"windowsextensionbuilder"}
      [] OTHER           -> {}

Platforms == {"linux", "darwin", "win32"}

BuilderNames == UNION {BuildersOf(plat) : plat \in Platforms}

\* builder.py:202 and 251: str(major) + str(minor)
python_version == <<"3", "8">>

\* mujoco_py.version.get_version()
get_version == <<"2.0.2.5">>

\* builder.py:227-228
build_base(b) == <<b>>

\* builder.py:203: '%s_%s_%s' % (get_version(), python_version, build_base())
version(b) == get_version \o <<"_">> \o python_version \o <<"_">> \o build_base(b)

\* builder.py:249-252
get_so_file_path(b) ==
    <<"generated/", "cymj_">> \o version(b) \o <<"_">> \o python_version \o <<".so">>

\* builder.py:241-247: the toolchain's output under build_base
built_so_file_path(b) ==
    <<"generated/", "_pyxbld_">> \o version(b) \o <<"/lib/mujoco_py/cymj", ".so">>

\* builder.py:160-161: os.path.splitext and root + '_final' + ext
final_cext_dll_path(raw) ==
    SubSeq(raw, 1, Len(raw) - 1) \o <<"_final">> \o <<raw[Len(raw)]>>

\* builder.py:169
tmp_final_cext_dll_path(raw) == final_cext_dll_path(raw) \o <<"~">>

PathsOf(b) ==
    {get_so_file_path(b), built_so_file_path(b),
     final_cext_dll_path(built_so_file_path(b)),
     tmp_final_cext_dll_path(built_so_file_path(b))}

Paths == UNION {PathsOf(b) : b \in BuilderNames}

\* builder.py:276-277 and 293-296: the fix_shared_library calls, in order
LinuxFixes(b) ==
    CASE b = "linuxcpuextensionbuilder" -> <<"libmujoco200.so", "libglewosmesa.so">>
      [] b = "linuxgpuextensionbuilder" ->
            <<"libOpenGL.so", "libEGL.so", "libmujoco200.so", "libglewegl.so">>
      [] OTHER -> <<>>

\* builder.py:176-190: the two install_name_tool changes, in order
MacFixes == <<"libmujoco200.dylib", "libglfw.3.dylib">>

Range(s) == {s[i] : i \in 1..Len(s)}

\* The fixups a published artifact of builder b carries
RequiredFixes(b) ==
    IF b = "macextensionbuilder" THEN Range(MacFixes) ELSE Range(LinuxFixes(b))

\* A file is a finished artifact of builder b
Finished(f, b) == f.exists /\ f.complete /\ f.fixes = RequiredFixes(b)

\* builder.py:123-126: load_dynamic_ext returns a module or raises ImportError
CanLoad(f) == f.exists /\ f.complete /\ f.loads

(***************************************************************************)
(* load_cython_ext, builder.py:44-109, one call per process.  The platform *)
(* switch of lines 65-85 has run: Builder[p] is the class it picked.       *)
(***************************************************************************)
NoHist == [builds |-> 0, importError |-> FALSE, removed |-> "no", found |-> "no"]

cext_so_path(p) == get_so_file_path(Builder[p])

\* builder.py:467: '_fn_' + 15 letters, one piece per character
fn_prefix == <<"_", "f", "n", "_">>

\* builder.py:481: the library ffibuilder.compile() returns for module name
library_path(name) == name \o <<".so">>

\* The raw library manually_link_libraries is given: the toolchain's output
\* (line 336), or the callback library of build_callback_fn (line 487) in a
\* process that runs no builder
raw_path(p) ==
    IF Builder[p] = "none" THEN library_path(fname[p])
    ELSE built_so_file_path(Builder[p])

IsMac(p) == Builder[p] = "macextensionbuilder"

\* A file that exists at the canonical path of some builder before any call:
\* a valid artifact of an earlier run, or a truncated one
OldArtifact(b) ==
    [exists |-> TRUE, complete |-> TRUE, fixes |-> RequiredFixes(b),
     loads |-> TRUE, id |-> 0, mtime |-> 0]

TruncatedArtifact(b) ==
    [exists |-> TRUE, complete |-> FALSE, fixes |-> RequiredFixes(b),
     loads |-> FALSE, id |-> 0, mtime |-> 0]

InitialFile(b, kind) ==
    CASE kind = "valid"     -> OldArtifact(b)
      [] kind = "truncated" -> TruncatedArtifact(b)
      [] OTHER              -> NoFile

\* Only canonical paths of the platform's builders may hold a file at first
InitialDisks(plat) ==
    {[q \in Paths |->
        IF \E b \in BuildersOf(plat) : q = get_so_file_path(b)
        THEN InitialFile(CHOOSE b \in BuildersOf(plat) : q = get_so_file_path(b),
                         c[CHOOSE b \in BuildersOf(plat) : q = get_so_file_path(b)])
        ELSE NoFile] :
     c \in [BuildersOf(plat) -> {"absent", "valid", "truncated"}]}

\* Processes are interchangeable: of the initial states that differ only in
\* which process has which inputs, one is kept
Rank(b, f) ==
    (IF b = "linuxgpuextensionbuilder" THEN 2 ELSE 0) + (IF f THEN 1 ELSE 0)

\* builder.py:84-91: the builder is constructed and the force-rebuild flag
\* read; the call stands before line 92 when the flag is set and before
\* line 100 when it is not
LoadInit ==
    /\ platform \in Platforms
    /\ disk \in InitialDisks(platform)
    /\ lock = 0
    /\ clock = 1
    /\ nbuilds = 0
    /\ force \in [Procs -> BOOLEAN]
    /\ Builder \in [Procs -> BuildersOf(platform)]
    /\ \A p \in Procs \ {NProcs} : Rank(Builder[p], force[p]) <= Rank(Builder[p + 1], force[p + 1])
    /\ \A b \in BuildersOf(platform) :
          (\A p \in Procs : Builder[p] # b) => disk[get_so_file_path(b)] = NoFile
    /\ pc = [p \in Procs |-> IF force[p] THEN "rm_lock" ELSE "exists"]
    /\ mod = [p \in Procs |-> NoFile]
    /\ exc = [p \in Procs |-> "none"]
    /\ bid = [p \in Procs |-> 0]
    /\ step = [p \in Procs |-> 0]
    /\ hist = [p \in Procs |-> NoHist]

\* An exception raised inside a with LockFile block is in flight until the
\* block's __exit__ has run; one raised in build_callback_fn outside its try
\* leaves the call at once
Raise(p, e) ==
    /\ exc' = [exc EXCEPT ![p] = e]
    /\ pc' = [pc EXCEPT ![p] = IF Builder[p] = "none" THEN "raised" ELSE "unwind"]

\* The locals of build() once it is left
NoLocals(f, p) == [f EXCEPT ![p] = 0]

\* A removal that does not take the build lock
RmAcquire_Unlocked(p) ==
    /\ pc[p] = "rm_lock"
    /\ pc' = [pc EXCEPT ![p] = "rm"]
    /\ UNCHANGED <<rest, platform, disk, lock, clock, nbuilds, force, Builder, mod,
                   exc, bid, step, hist>>

\* builder.py:92-93: with LockFile(lockpath), entered
RmAcquire(p) ==
    /\ pc[p] = "rm_lock"
    /\ lock = 0
    /\ lock' = p
    /\ pc' = [pc EXCEPT ![p] = "rm"]
    /\ UNCHANGED <<rest, platform, disk, clock, nbuilds, force, Builder, mod, exc,
                   bid, step, hist>>

\* os.remove raises FileNotFoundError, an OSError, on a path that is absent
os_remove_raises(f) == IF f.exists THEN "none" ELSE "OSError"

\* A removal whose handler lets the error of an absent file through
RemoveHandler_Propagates(e) == e

\* builder.py:98-99: except OSError: pass
RemoveHandler(e) == IF e = "OSError" THEN "none" ELSE e

\* builder.py:96-99
Remove(p) ==
    /\ pc[p] = "rm"
    /\ LET e == RemoveHandler(os_remove_raises(disk[cext_so_path(p)]))
       IN  /\ disk' = [disk EXCEPT ![cext_so_path(p)] = NoFile]
           /\ hist' = [hist EXCEPT ![p].removed =
                           IF disk[cext_so_path(p)].exists THEN "removed" ELSE "absent"]
           /\ IF e = "none"
              THEN /\ pc' = [pc EXCEPT ![p] = "rm_unlock"]
                   /\ exc' = exc
              ELSE Raise(p, e)
    /\ UNCHANGED <<rest, platform, lock, clock, nbuilds, force, Builder, mod, bid,
                   step>>

\* A removal whose with block stays open around the rest of the call
RmRelease_Nested(p) ==
    /\ pc[p] = "rm_unlock"
    /\ pc' = [pc EXCEPT ![p] = "exists"]
    /\ UNCHANGED <<rest, platform, disk, lock, clock, nbuilds, force, Builder, mod,
                   exc, bid, step, hist>>

\* builder.py:93: the with block of the removal is left
RmRelease(p) ==
    /\ pc[p] = "rm_unlock"
    /\ lock' = IF lock = p THEN 0 ELSE lock
    /\ pc' = [pc EXCEPT ![p] = "exists"]
    /\ UNCHANGED <<rest, platform, disk, clock, nbuilds, force, Builder, mod, exc,
                   bid, step, hist>>

\* A call that builds whether or not the artifact is there
Exists_AlwaysBuild(p) ==
    /\ pc[p] = "exists"
    /\ pc' = [pc EXCEPT ![p] = "build_lock"]
    /\ hist' = [hist EXCEPT ![p].found = IF disk[cext_so_path(p)].exists
                                         THEN "present" ELSE "absent"]
    /\ UNCHANGED <<rest, platform, disk, lock, clock, nbuilds, force, Builder, mod,
                   exc, bid, step>>

\* builder.py:100 and 105: exists(cext_so_path); mod is None when it is not
Exists(p) ==
    /\ pc[p] = "exists"
    /\ pc' = [pc EXCEPT ![p] = IF disk[cext_so_path(p)].exists
                               THEN "load" ELSE "build_lock"]
    /\ hist' = [hist EXCEPT ![p].found = IF disk[cext_so_path(p)].exists
                                         THEN "present" ELSE "absent"]
    /\ UNCHANGED <<rest, platform, disk, lock, clock, nbuilds, force, Builder, mod,
                   exc, bid, step>>

\* A first load whose ImportError is not caught
LoadHandler_Propagates(e) == e

\* builder.py:103: the handler of the first load
LoadHandler(e) == IF e = "ImportError" THEN "none" ELSE e

\* builder.py:101-105
LoadExisting(p) ==
    /\ pc[p] = "load"
    /\ LET f == disk[cext_so_path(p)]
       IN  IF CanLoad(f)
           THEN /\ mod' = [mod EXCEPT ![p] = f]
                /\ pc' = [pc EXCEPT ![p] = "done"]
                /\ UNCHANGED <<exc, hist>>
           ELSE /\ mod' = mod
                /\ hist' = [hist EXCEPT ![p].importError = TRUE]
                /\ IF LoadHandler("ImportError") = "none"
                   THEN /\ pc' = [pc EXCEPT ![p] = "build_lock"]
                        /\ exc' = exc
                   ELSE /\ pc' = [pc EXCEPT ![p] = "raised"]
                        /\ exc' = [exc EXCEPT ![p] = "ImportError"]
    /\ UNCHANGED <<rest, platform, disk, lock, clock, nbuilds, force, Builder, bid,
                   step>>

\* A build that does not wait for the lock to be free
BuildAcquire_NoWait(p) ==
    /\ pc[p] = "build_lock"
    /\ lock' = p
    /\ pc' = [pc EXCEPT ![p] = "build"]
    /\ UNCHANGED <<rest, platform, disk, clock, nbuilds, force, Builder, mod, exc,
                   bid, step, hist>>

\* builder.py:106: with LockFile(lockpath), entered
BuildAcquire(p) ==
    /\ pc[p] = "build_lock"
    /\ lock = 0
    /\ lock' = p
    /\ pc' = [pc EXCEPT ![p] = "build"]
    /\ UNCHANGED <<rest, platform, disk, clock, nbuilds, force, Builder, mod, exc,
                   bid, step, hist>>

\* A partly written file: the toolchain or a copy has started to write it
Partial == [exists |-> TRUE, complete |-> FALSE, fixes |-> {}, loads |-> FALSE,
            id |-> 0, mtime |-> 0]

\* Where the post-link stage of builder b starts
PostLinkPc(b) ==
    CASE b = "macextensionbuilder" -> "ml_check"
      [] Len(LinuxFixes(b)) > 0    -> "fix"
      [] OTHER                     -> "move"

\* builder.py:107 and 221-222: builder.build() is entered
BuildBegin(p) ==
    /\ pc[p] = "build"
    /\ nbuilds' = nbuilds + 1
    /\ bid' = [bid EXCEPT ![p] = nbuilds + 1]
    /\ hist' = [hist EXCEPT ![p].builds = @ + 1]
    /\ pc' = [pc EXCEPT ![p] = IF IsMac(p) THEN "cc" ELSE "toolchain"]
    /\ UNCHANGED <<rest, platform, disk, lock, clock, force, Builder, mod, exc, step>>

\* builder.py:310-335: MacExtensionBuilder._build_impl picks a compiler; with
\* CC unset and no known GCC found it raises RuntimeError
MacCompiler(p) ==
    /\ pc[p] = "cc"
    /\ \/ /\ pc' = [pc EXCEPT ![p] = "toolchain"]
          /\ exc' = exc
       \/ Raise(p, "RuntimeError")
    /\ UNCHANGED <<rest, platform, disk, lock, clock, nbuilds, force, Builder, mod,
                   bid, step, hist>>

\* builder.py:230-245: the toolchain starts; a complete output is up to date
ToolchainStart(p) ==
    /\ pc[p] = "toolchain"
    /\ step' = [step EXCEPT ![p] = 1]
    /\ IF disk[raw_path(p)].exists /\ disk[raw_path(p)].complete
       THEN /\ pc' = [pc EXCEPT ![p] = PostLinkPc(Builder[p])]
            /\ disk' = disk
       ELSE /\ pc' = [pc EXCEPT ![p] = "linking"]
            /\ disk' = [disk EXCEPT ![raw_path(p)] = Partial]
    /\ UNCHANGED <<rest, platform, lock, clock, nbuilds, force, Builder, mod, exc,
                   bid, hist>>

\* Modification times are kept where the code reads them: getmtime in
\* manually_link_libraries, so on the files of the Mac builder
Stamp(p) == IF platform = "darwin" THEN clock ELSE 0

Tick(p) == IF platform = "darwin" THEN clock + 1 ELSE clock

\* builder.py:245-247: dist.run_commands() returns or raises
ToolchainEnd(p) ==
    /\ pc[p] = "linking"
    /\ \/ /\ \E l \in BOOLEAN :
                disk' = [disk EXCEPT ![raw_path(p)] =
                            [exists |-> TRUE, complete |-> TRUE, fixes |-> {},
                             loads |-> l, id |-> 0, mtime |-> Stamp(p)]]
          /\ clock' = Tick(p)
          /\ pc' = [pc EXCEPT ![p] = PostLinkPc(Builder[p])]
          /\ exc' = exc
       \/ /\ Raise(p, "DistutilsError")
          /\ UNCHANGED <<disk, clock>>
    /\ UNCHANGED <<rest, platform, lock, nbuilds, force, Builder, mod, bid, step, hist>>

\* Fixups that patch the published file in place
FixTarget_Canonical(p) == cext_so_path(p)

\* The file the fixups of builder.py:276-277 and 293-296 are applied to
FixTarget(p) == raw_path(p)

\* builder.py:148-155 called from 273-278 and 291-297: one fix_shared_library
\* call; patchelf or ldd failing raises CalledProcessError
fix_shared_library(p) ==
    /\ pc[p] = "fix"
    /\ \/ /\ disk[FixTarget(p)].exists
          /\ disk' = [disk EXCEPT ![FixTarget(p)].fixes =
                         @ \cup {LinuxFixes(Builder[p])[step[p]]}]
          /\ clock' = clock
          /\ step' = [step EXCEPT ![p] = @ + 1]
          /\ pc' = [pc EXCEPT ![p] = IF step[p] = Len(LinuxFixes(Builder[p]))
                                     THEN "move" ELSE "fix"]
          /\ exc' = exc
       \/ /\ Raise(p, "CalledProcessError")
          /\ UNCHANGED <<disk, clock, step>>
    /\ UNCHANGED <<rest, platform, lock, nbuilds, force, Builder, mod, bid, hist>>

(***************************************************************************)
(* manually_link_libraries, builder.py:158-193, as called from             *)
(* MacExtensionBuilder._build_impl (line 336) on the toolchain's output.   *)
(***************************************************************************)
final_path(p) == final_cext_dll_path(raw_path(p))

\* Where the caller of manually_link_libraries goes on: line 223 of build(),
\* line 488 of build_callback_fn
AfterFixup(p) == IF Builder[p] = "none" THEN "fn_move" ELSE "move"

tmp_path(p) == tmp_final_cext_dll_path(raw_path(p))

\* A test with the comparison turned round: a final file newer than the raw
\* file is taken for out of date
up_to_date_Older(p) ==
    /\ disk[final_path(p)].exists
    /\ disk[final_path(p)].mtime <= disk[raw_path(p)].mtime

\* builder.py:165-166: exists(final) and getmtime(final) >= getmtime(raw)
up_to_date(p) ==
    /\ disk[final_path(p)].exists
    /\ disk[final_path(p)].mtime >= disk[raw_path(p)].mtime

\* builder.py:165-167: an up-to-date final file is returned as it is;
\* getmtime of a raw file that is not there raises FileNotFoundError
ml_check(p) ==
    /\ pc[p] = "ml_check"
    /\ IF disk[final_path(p)].exists /\ ~disk[raw_path(p)].exists
       THEN Raise(p, "FileNotFoundError")
       ELSE /\ pc' = [pc EXCEPT ![p] =
                       IF up_to_date(p) THEN AfterFixup(p) ELSE "ml_copy"]
            /\ exc' = exc
    /\ UNCHANGED <<rest, platform, disk, lock, clock, nbuilds, force, Builder, mod,
                   bid, step, hist>>

\* builder.py:170: shutil.copyfile opens the raw file, then opens the
\* temporary file and truncates it, which sets its modification time; a raw
\* file that is not there raises FileNotFoundError
ml_copy_start(p) ==
    /\ pc[p] = "ml_copy"
    /\ IF disk[raw_path(p)].exists
       THEN /\ disk' = [disk EXCEPT ![tmp_path(p)] =
                           [disk[raw_path(p)] EXCEPT !.complete = FALSE,
                                                     !.mtime = clock]]
            /\ clock' = clock + 1
            /\ pc' = [pc EXCEPT ![p] = "ml_copying"]
            /\ exc' = exc
       ELSE /\ Raise(p, "FileNotFoundError")
            /\ UNCHANGED <<disk, clock>>
    /\ UNCHANGED <<rest, platform, lock, nbuilds, force, Builder, mod,
                   bid, step, hist>>

\* builder.py:170: shutil.copyfile has written all of the raw file it
\* opened.  When the temporary name was unlinked or renamed meanwhile, the
\* bytes go to a file that name no longer leads to
ml_copy_end(p) ==
    /\ pc[p] = "ml_copying"
    /\ IF disk[tmp_path(p)].exists
       THEN /\ disk' = [disk EXCEPT ![tmp_path(p)].complete = TRUE,
                                    ![tmp_path(p)].mtime = clock]
            /\ clock' = clock + 1
       ELSE UNCHANGED <<disk, clock>>
    /\ step' = [step EXCEPT ![p] = 1]
    /\ pc' = [pc EXCEPT ![p] = "ml_tool"]
    /\ UNCHANGED <<rest, platform, lock, nbuilds, force, Builder, mod, exc, bid, hist>>

\* builder.py:178-190: one install_name_tool -change on the temporary file;
\* a failing tool raises CalledProcessError
ml_install_name_tool(p) ==
    /\ pc[p] = "ml_tool"
    /\ \/ /\ disk[tmp_path(p)].exists
          /\ disk' = [disk EXCEPT ![tmp_path(p)].fixes = @ \cup {MacFixes[step[p]]},
                                  ![tmp_path(p)].mtime = clock]
          /\ clock' = clock + 1
          /\ step' = [step EXCEPT ![p] = @ + 1]
          /\ pc' = [pc EXCEPT ![p] = IF step[p] = Len(MacFixes)
                                     THEN "ml_rename" ELSE "ml_tool"]
          /\ exc' = exc
       \/ /\ Raise(p, "CalledProcessError")
          /\ UNCHANGED <<disk, clock, step>>
    /\ UNCHANGED <<rest, platform, lock, nbuilds, force, Builder, mod, bid, hist>>

\* builder.py:192-193: os.rename(tmp, final); a temporary file that is not
\* there raises FileNotFoundError
ml_rename(p) ==
    /\ pc[p] = "ml_rename"
    /\ IF disk[tmp_path(p)].exists
       THEN /\ disk' = [disk EXCEPT ![final_path(p)] = disk[tmp_path(p)],
                                    ![tmp_path(p)] = NoFile]
            /\ pc' = [pc EXCEPT ![p] = AfterFixup(p)]
            /\ exc' = exc
       ELSE /\ Raise(p, "FileNotFoundError")
            /\ disk' = disk
    /\ UNCHANGED <<rest, platform, lock, clock, nbuilds, force, Builder, mod,
                   bid, step, hist>>

\* builder.py:222: what _build_impl returns: the final file of the Mach-O
\* fixup on the Mac, the toolchain's output elsewhere
built_output(p) == IF IsMac(p) THEN final_path(p) ELSE raw_path(p)

\* builder.py:223-225: move(built_so_file_path, new_so_file_path), a rename
\* that replaces the canonical file in one step
Move(p) ==
    /\ pc[p] = "move"
    /\ disk' = [disk EXCEPT ![cext_so_path(p)] =
                                [disk[built_output(p)] EXCEPT !.id = bid[p]],
                            ![built_output(p)] = NoFile]
    /\ pc' = [pc EXCEPT ![p] = "load_built"]
    /\ UNCHANGED <<rest, platform, lock, clock, nbuilds, force, Builder, mod, exc,
                   bid, step, hist>>

\* builder.py:108: the built artifact is loaded, inside the with block
LoadBuilt(p) ==
    /\ pc[p] = "load_built"
    /\ IF CanLoad(disk[cext_so_path(p)])
       THEN /\ mod' = [mod EXCEPT ![p] = disk[cext_so_path(p)]]
            /\ pc' = [pc EXCEPT ![p] = "with_exit"]
            /\ exc' = exc
       ELSE /\ mod' = mod
            /\ Raise(p, "ImportError")
    /\ UNCHANGED <<rest, platform, disk, lock, clock, nbuilds, force, Builder, bid,
                   step, hist>>

\* A block whose exit leaves the lock with its holder
Released_Kept(p) == lock

\* What LockFile.__exit__ leaves in the lock when process p leaves the block
Released(p) == IF lock = p THEN 0 ELSE lock

\* builder.py:106: the with block of the build is left, by line 109 or by an
\* exception in flight
WithExit(p) ==
    /\ pc[p] \in {"with_exit", "unwind"}
    /\ lock' = Released(p)
    /\ pc' = [pc EXCEPT ![p] = IF pc[p] = "unwind" THEN "raised" ELSE "done"]
    /\ bid' = NoLocals(bid, p)
    /\ step' = NoLocals(step, p)
    /\ UNCHANGED <<rest, platform, disk, clock, nbuilds, force, Builder, mod, exc, hist>>

\* builder.py:89-109: the next step of process p's call of load_cython_ext
load_cython_ext(p) ==
    \/ RmAcquire(p)
    \/ Remove(p)
    \/ RmRelease(p)
    \/ Exists(p)
    \/ LoadExisting(p)
    \/ BuildAcquire(p)
    \/ BuildBegin(p)
    \/ MacCompiler(p)
    \/ ToolchainStart(p)
    \/ ToolchainEnd(p)
    \/ fix_shared_library(p)
    \/ ml_check(p)
    \/ ml_copy_start(p)
    \/ ml_copy_end(p)
    \/ ml_install_name_tool(p)
    \/ ml_rename(p)
    \/ Move(p)
    \/ LoadBuilt(p)
    \/ WithExit(p)

LoadNext == \E p \in Procs : load_cython_ext(p)

Init == LoadInit /\ FnIdle /\ SrcIdle /\ PlatIdle /\ MlIdle /\ PathIdle

Next == LoadNext

Spec == Init /\ [][Next]_vars

\* Every process goes on as long as it can: a toolchain invocation, a copy,
\* a load and a removal terminate, and a process waiting in LockFile.acquire
\* (it polls the lock file) gets the lock once the lock stays free
Fairness == \A p \in Procs : WF_vars(load_cython_ext(p))

SpecFair == Init /\ [][Next]_vars /\ Fairness

(***************************************************************************)
(* Properties of load_cython_ext, checked under Spec.                      *)
(***************************************************************************)
\* Process p is inside builder.build(): builder.py:221-225 and what it calls
InBuild(p) ==
    pc[p] \in {"cc", "toolchain", "linking", "fix", "ml_check", "ml_copy",
               "ml_copying", "ml_tool", "ml_rename", "move"}

Finished_call(p) == pc[p] \in {"done", "raised"}

\* What builder.build() raises: the toolchain, a binary-rewriting tool, the
\* compiler probe of the Mac builder
BuildFailures == {"DistutilsError", "CalledProcessError", "RuntimeError"}

ToolchainFailures == {"DistutilsError", "CalledProcessError"}

\* C1: at most one build runs per machine at any time: every process that is
\* inside builder.build() holds the one build lock, whatever its variant and
\* its force-rebuild flag, so no two processes are inside build() at once.
C1_OneBuildAtATime ==
    /\ \A p \in Procs : InBuild(p) => lock = p
    /\ Cardinality({p \in Procs : InBuild(p)}) <= 1

\* A process of one variant builds while a process of another variant, one of
\* the two with the force-rebuild flag, waits for the lock to build
C1_Witness ==
    \E p, q \in Procs :
        /\ InBuild(p) /\ pc[q] = "build_lock"
        /\ Builder[p] # Builder[q]
        /\ force[p] # force[q]

\* C2: two processes that call for the same cache key and both find no
\* artifact at the canonical path run builder.build() exactly once between
\* them, and both return the module of the same published artifact.  Stated
\* for the runs in which no process forces a rebuild and both calls return.
C2_ExactlyOneBuild ==
    \A p, q \in Procs :
        ( /\ p # q /\ Builder[p] = Builder[q]
          /\ \A r \in Procs : ~force[r]
          /\ hist[p].found = "absent" /\ hist[q].found = "absent"
          /\ pc[p] = "done" /\ pc[q] = "done" )
        => /\ hist[p].builds + hist[q].builds = 1
           /\ mod[p].id = mod[q].id

\* C3: a file that a build put at a canonical artifact path is completely
\* compiled and carries every post-link fixup of its variant, in every
\* reachable state; so is every module a process has loaded from one.
C3_NoHalfWrittenArtifact ==
    /\ \A b \in BuilderNames :
          LET f == disk[get_so_file_path(b)]
          IN  (f.exists /\ f.id > 0) => Finished(f, b)
    /\ \A p \in Procs :
          (mod[p].exists /\ mod[p].id > 0) => Finished(mod[p], Builder[p])

\* A build has published its artifact and a later build of the same variant
\* has an unfinished file in the scratch directory
C3_Witness ==
    \E p \in Procs :
        /\ pc[p] \in {"linking", "fix", "ml_copying", "ml_tool"}
        /\ \E q \in PathsOf(Builder[p]) \ {cext_so_path(p)} :
              disk[q].exists /\ ~Finished(disk[q], Builder[p])
        /\ disk[cext_so_path(p)].exists /\ disk[cext_so_path(p)].id > 0

\* C4 as claimed: a call whose load of the existing artifact failed runs
\* builder.build() exactly once and then succeeds.
C4_RebuildOnceThenSucceeds ==
    \A p \in Procs :
        (hist[p].importError /\ Finished_call(p))
        => (pc[p] = "done" /\ hist[p].builds = 1)

\* C4 as amended: no call runs builder.build() more than once; a call whose
\* load of the existing artifact failed does not raise before its one build,
\* returns the artifact that build published when it returns, and raises only
\* what that build or the load of its artifact raised.
C4_RebuildOnce ==
    \A p \in Procs :
        /\ hist[p].builds <= 1
        /\ (hist[p].importError /\ Finished_call(p)) => hist[p].builds = 1
        /\ (hist[p].importError /\ pc[p] = "done")
              => (mod[p].exists /\ mod[p].id > 0)
        /\ (hist[p].importError /\ pc[p] = "raised")
              => exc[p] \in BuildFailures \cup {"ImportError"}

\* A call found a file at the canonical path, failed to load it, rebuilt and
\* returned
C4_Witness ==
    \E p \in Procs :
        /\ hist[p].found = "present" /\ hist[p].importError
        /\ pc[p] = "done" /\ hist[p].builds = 1

C6_FailureLeavesNoInvalidArtifact ==
    \A p \in Procs :
        (pc[p] = "raised" /\ exc[p] \in ToolchainFailures)
        => /\ lock # p
           /\ LET f == disk[cext_so_path(p)]
              IN  f.exists => (Finished(f, Builder[p]) /\ f.loads)

(***************************************************************************)
(* The platform resolver: get_nvidia_lib_dir, builder.py:26-41, and the    *)
(* platform switch of load_cython_ext, builder.py:65-82.  A path is a      *)
(* sequence of pieces; the name of a driver directory ends in one piece    *)
(* per character after "nvidia-".                                          *)
(***************************************************************************)
None == <<"None">>

\* builder.py:31
docker_path == <<"/usr/local/nvidia/lib64">>

NvidiaDir(chars) == <<"/usr/lib/", "nvidia-">> \o chars

\* Directories of /usr/lib that may exist: versioned driver directories and
\* names the pattern of line 34 does not match
UsrLibNames ==
    {NvidiaDir(<<"4", "1", "0">>), NvidiaDir(<<"4", "1", "5">>),
     NvidiaDir(<<"4", "5", "0">>), NvidiaDir(<<"3", "9", "0">>),
     NvidiaDir(<<"9", "6">>), NvidiaDir(<<"4", "1", "0", "0">>),
     NvidiaDir(<<"c", "u", "r">>)}

Digits == <<"0", "1", "2", "3", "4", "5", "6", "7", "8", "9">>

IsDigit(c) == \E i \in 1..Len(Digits) : Digits[i] = c

\* The place of a character in the order Python compares strings by
Ord(c) == IF IsDigit(c) THEN CHOOSE i \in 1..Len(Digits) : Digits[i] = c
          ELSE Len(Digits) + 1

\* builder.py:34: glob.glob('/usr/lib/nvidia-[0-9][0-9][0-9]')
glob_nvidia(dirs) ==
    {d \in dirs : /\ Len(d) = 5
                  /\ d[1] = "/usr/lib/" /\ d[2] = "nvidia-"
                  /\ IsDigit(d[3]) /\ IsDigit(d[4]) /\ IsDigit(d[5])}

\* Python's order on strings, on the pieces after the common prefix
RECURSIVE StrLess(_, _)
StrLess(a, b) ==
    IF Len(a) = 0 THEN Len(b) > 0
    ELSE IF Len(b) = 0 THEN FALSE
    ELSE IF a[1] = b[1] THEN StrLess(Tail(a), Tail(b))
    ELSE Ord(a[1]) < Ord(b[1])

\* builder.py:35: sorted(paths)
RECURSIVE sorted(_)
sorted(S) ==
    IF S = {} THEN <<>>
    ELSE LET least == CHOOSE x \in S : \A y \in S \ {x} : StrLess(x, y)
         IN  <<least>> \o sorted(S \ {least})

\* The result of line 41 with the first path taken instead of the last
last_of_First(paths) == paths[1]

\* builder.py:41: paths[-1]
last_of(paths) == paths[Len(paths)]

\* builder.py:26-41
get_nvidia_lib_dir(smi, dirs) ==
    IF ~smi THEN None
    ELSE IF docker_path \in dirs THEN docker_path
    ELSE LET paths == sorted(glob_nvidia(dirs))
         IN  IF Len(paths) = 0 THEN None ELSE last_of(paths)

\* builder.py:65: os.path.join(mujoco_path, "bin")
lib_path == <<"/mujoco/bin">>

\* os.path.abspath on a search-path entry: a trailing separator is dropped,
\* the empty string is the working directory
abspath(e) ==
    IF e = <<>> THEN <<"/cwd">>
    ELSE IF Len(e) > 1 /\ e[Len(e)] = "/" THEN SubSeq(e, 1, Len(e) - 1)
    ELSE e

\* Entries a search-path variable may hold
PathEntries ==
    {lib_path, lib_path \o <<"/">>, <<>>, docker_path,
     NvidiaDir(<<"4", "5", "0">>), NvidiaDir(<<"4", "1", "5">>)}

\* A search-path variable: unset, or its entries in order (the value split
\* at its separator)
PathValues ==
    {<<"unset">>} \cup
    UNION {[1..n -> PathEntries] : n \in 1..MaxEntries}

\* builder.py:113: os.environ.get(var_name, "").split(":")
split_var(v) == IF v = <<"unset">> THEN <<(<<>>)>> ELSE v

\* builder.py:112-120: _ensure_set_env_var passes
ensure_ok(v, path) ==
    \E i \in 1..Len(split_var(v)) : abspath(split_var(v)[i]) = path

\* builder.py:77: var in os.environ and lib_path in os.environ[var].split(";")
windows_ok(v) ==
    /\ v # <<"unset">>
    /\ \E i \in 1..Len(v) : v[i] = lib_path

SysPlatforms == {"linux", "darwin", "win32", "cygwin", "freebsd"}

\* builder.py:75: sys.platform.startswith("win")
startswith_win(plat) == plat = "win32"

LoadIdle ==
    /\ disk = <<>>
    /\ lock = 0
    /\ clock = 1
    /\ nbuilds = 0
    /\ pc = [p \in Procs |-> "idle"]
    /\ force = [p \in Procs |-> FALSE]
    /\ Builder = [p \in Procs |-> "none"]
    /\ mod = [p \in Procs |-> NoFile]
    /\ exc = [p \in Procs |-> "none"]
    /\ bid = [p \in Procs |-> 0]
    /\ step = [p \in Procs |-> 0]
    /\ hist = [p \in Procs |-> NoHist]

loadOnly == <<disk, lock, clock, nbuilds, pc, force, Builder, mod, exc, bid,
              step, hist>>

PlatInit ==
    /\ platform \in SysPlatforms
    /\ nvidia_smi \in BOOLEAN
    /\ usr_dirs \in {D \in SUBSET (UsrLibNames \cup {docker_path}) :
                        Cardinality(D) <= MaxDirs}
    /\ environ \in [MUJOCO_PY_FORCE_CPU : {"unset", "", "1"},
                    LD_LIBRARY_PATH : PathValues,
                    PATH : {<<"unset">>, <<lib_path>>}]
    \* only the variables and directories the platform's branch reads vary
    /\ platform # "linux" =>
          /\ ~nvidia_smi /\ usr_dirs = {}
          /\ environ.MUJOCO_PY_FORCE_CPU = "unset"
          /\ environ.LD_LIBRARY_PATH = <<"unset">>
    /\ platform # "win32" => environ.PATH = <<"unset">>
    /\ resolved = "none"
    /\ rpc = "switch"

\* builder.py:66-67
ResolveDarwin ==
    /\ rpc = "switch" /\ platform = "darwin"
    /\ resolved' = "macextensionbuilder"
    /\ rpc' = "done"
    /\ UNCHANGED <<loadOnly, fnVars, srcVars, mlVars, pathVars, platform, environ, nvidia_smi,
                   usr_dirs>>

\* builder.py:68-69
ResolveLinuxEnsure ==
    /\ rpc = "switch" /\ platform = "linux"
    /\ IF ensure_ok(environ.LD_LIBRARY_PATH, lib_path)
       THEN /\ rpc' = "variant"
            /\ resolved' = resolved
       ELSE /\ rpc' = "raised"
            /\ resolved' = "Exception"
    /\ UNCHANGED <<loadOnly, fnVars, srcVars, mlVars, pathVars, platform, environ, nvidia_smi,
                   usr_dirs>>

\* builder.py:70-74
ResolveLinuxVariant ==
    /\ rpc = "variant"
    /\ LET dir == get_nvidia_lib_dir(nvidia_smi, usr_dirs)
       IN  IF environ.MUJOCO_PY_FORCE_CPU = "unset" /\ dir # None
           THEN IF ensure_ok(environ.LD_LIBRARY_PATH, dir)
                THEN /\ rpc' = "done"
                     /\ resolved' = "linuxgpuextensionbuilder"
                ELSE /\ rpc' = "raised"
                     /\ resolved' = "Exception"
           ELSE /\ rpc' = "done"
                /\ resolved' = "linuxcpuextensionbuilder"
    /\ UNCHANGED <<loadOnly, fnVars, srcVars, mlVars, pathVars, platform, environ, nvidia_smi,
                   usr_dirs>>

\* builder.py:75-80
ResolveWindows ==
    /\ rpc = "switch" /\ platform \notin {"darwin", "linux"}
    /\ startswith_win(platform)
    /\ IF windows_ok(environ.PATH)
       THEN /\ rpc' = "done"
            /\ resolved' = "windowsextensionbuilder"
       ELSE /\ rpc' = "raised"
            /\ resolved' = "Exception"
    /\ UNCHANGED <<loadOnly, fnVars, srcVars, mlVars, pathVars, platform, environ, nvidia_smi,
                   usr_dirs>>

\* builder.py:81-82
ResolveUnsupported ==
    /\ rpc = "switch" /\ platform \notin {"darwin", "linux"}
    /\ ~startswith_win(platform)
    /\ rpc' = "raised"
    /\ resolved' = "RuntimeError"
    /\ UNCHANGED <<loadOnly, fnVars, srcVars, mlVars, pathVars, platform, environ, nvidia_smi,
                   usr_dirs>>

PlatNext ==
    \/ ResolveDarwin
    \/ ResolveLinuxEnsure
    \/ ResolveLinuxVariant
    \/ ResolveWindows
    \/ ResolveUnsupported

InitPlat == PlatInit /\ LoadIdle /\ FnIdle /\ SrcIdle /\ MlIdle /\ PathIdle

SpecPlat == InitPlat /\ [][PlatNext]_vars

(***************************************************************************)
(* Properties of the platform resolver, checked under SpecPlat.            *)
(***************************************************************************)
\* The number a versioned driver directory is named by
VersionNumber(d) == (Ord(d[3]) - 1) * 100 + (Ord(d[4]) - 1) * 10 + (Ord(d[5]) - 1)

\* The versioned driver directories that exist
Versioned == glob_nvidia(usr_dirs)

\* The versioned driver directory no other one comes after
Latest == CHOOSE d \in Versioned :
              \A e \in Versioned : VersionNumber(e) <= VersionNumber(d)

Discovered == get_nvidia_lib_dir(nvidia_smi, usr_dirs)

\* C10 as claimed: driver discovery returns the last versioned driver
\* directory in sorted order whenever there is one, and none when there is
\* none; Linux gets the GPU variant exactly when the override is unset and a
\* directory is discovered.
C10_DiscoveryPicksLatest ==
    (platform = "linux" /\ rpc = "done")
    => /\ Discovered = IF Versioned = {} THEN None ELSE Latest
       /\ resolved = "linuxgpuextensionbuilder"
             <=> (environ.MUJOCO_PY_FORCE_CPU = "unset" /\ Discovered # None)

\* C10 as amended: a resolver that returns has chosen the one variant of its
\* platform; on Linux that is the GPU variant exactly when the override is
\* unset and discovery returns a directory, else the CPU variant.  Discovery
\* returns none without nvidia-smi, else the container's library directory
\* if it exists, else the latest versioned driver directory, none if there
\* is none.
C10_Resolver ==
    /\ rpc = "done" =>
          /\ platform = "darwin" => resolved = "macextensionbuilder"
          /\ platform = "win32" => resolved = "windowsextensionbuilder"
          /\ platform = "linux" =>
                /\ resolved \in BuildersOf("linux")
                /\ resolved = "linuxgpuextensionbuilder"
                      <=> (/\ environ.MUJOCO_PY_FORCE_CPU = "unset"
                           /\ Discovered # None)
          /\ platform \in Platforms
    /\ rpc # "idle" =>
          Discovered = IF ~nvidia_smi THEN None
                       ELSE IF docker_path \in usr_dirs THEN docker_path
                       ELSE IF Versioned = {} THEN None
                       ELSE Latest

\* nvidia-410, nvidia-415 and nvidia-450 exist: nvidia-450 is discovered and
\* the GPU variant chosen
C10_Witness ==
    /\ rpc = "done" /\ resolved = "linuxgpuextensionbuilder"
    /\ Versioned = {NvidiaDir(<<"4", "1", "0">>), NvidiaDir(<<"4", "1", "5">>),
                    NvidiaDir(<<"4", "5", "0">>)}
    /\ Discovered = NvidiaDir(<<"4", "5", "0">>)

(***************************************************************************)
(* The compilation unit of build_callback_fn, builder.py:463-473.  A text  *)
(* is the sequence of its pieces; a Python value is its type and, for a    *)
(* list or tuple, its items.                                               *)
(***************************************************************************)
Identifiers == {"my_sum", "x"}

Bodies ==
    {<<"void fun(const mjModel* m, mjData* d) { d->userdata[0] += 1; }">>,
     <<"#include <stdio.h>\n", "void fun(const mjModel* m, mjData* d) { my_sum += x; }">>}

UserdataValues ==
    UNION {[type : {"list", "tuple"}, items : [1..n -> Identifiers]] :
              n \in 0..MaxNames}
    \cup {[type |-> "str", items |-> <<>>], [type |-> "NoneType", items |-> <<>>]}

\* builder.py:463: isinstance(userdata_names, (list, tuple))
isinstance_list_or_tuple(v) == v.type \in {"list", "tuple"}

\* str(i) of a natural number: its decimal digits
RECURSIVE str(_)
str(n) == IF n < 10 THEN <<Digits[n + 1]>>
          ELSE str(n \div 10) \o <<Digits[(n % 10) + 1]>>

\* A define line that counts the slots from 1
define_line_FromOne(data_name, k) ==
    <<"#define ", data_name, " d->userdata[">> \o str(k + 1) \o <<"]\n">>

\* builder.py:471: '#define {} d->userdata[{}]\n'.format(data_name, i)
define_line(data_name, k) ==
    <<"#define ", data_name, " d->userdata[">> \o str(k) \o <<"]\n">>

SrcInit ==
    /\ function_string \in Bodies
    /\ userdata_names \in UserdataValues
    /\ source_string = <<>>
    /\ spc = "assert"
    /\ enum_i = 0

\* builder.py:463-464
CheckUserdataNames ==
    /\ spc = "assert"
    /\ spc' = IF isinstance_list_or_tuple(userdata_names) THEN "header"
              ELSE "AssertionError"
    /\ UNCHANGED <<loadVars, fnVars, platVars, mlVars, pathVars, function_string, userdata_names,
                   source_string, enum_i>>

\* builder.py:468
SourceHeader ==
    /\ spc = "header"
    /\ source_string' = <<"#include <mujoco.h>\n">>
    /\ enum_i' = 0
    /\ spc' = "loop"
    /\ UNCHANGED <<loadVars, fnVars, platVars, mlVars, pathVars, function_string, userdata_names>>

\* builder.py:470-471: one turn of the loop
SourceDefine ==
    /\ spc = "loop"
    /\ enum_i < Len(userdata_names.items)
    /\ source_string' =
          source_string \o define_line(userdata_names.items[enum_i + 1], enum_i)
    /\ enum_i' = enum_i + 1
    /\ UNCHANGED <<loadVars, fnVars, platVars, mlVars, pathVars, function_string, userdata_names,
                   spc>>

\* builder.py:472
SourceBody ==
    /\ spc = "loop"
    /\ enum_i = Len(userdata_names.items)
    /\ source_string' = source_string \o function_string
    /\ spc' = "trailer"
    /\ UNCHANGED <<loadVars, fnVars, platVars, mlVars, pathVars, function_string, userdata_names,
                   enum_i>>

\* builder.py:473
SourceTrailer ==
    /\ spc = "trailer"
    /\ source_string' = source_string \o <<"\nuintptr_t __fun = (uintptr_t) fun;">>
    /\ spc' = "set_source"
    /\ UNCHANGED <<loadVars, fnVars, platVars, mlVars, pathVars, function_string, userdata_names,
                   enum_i>>

SrcNext ==
    \/ CheckUserdataNames
    \/ SourceHeader
    \/ SourceDefine
    \/ SourceBody
    \/ SourceTrailer

InitSrc ==
    /\ SrcInit /\ LoadIdle /\ FnIdle /\ PlatIdle /\ MlIdle /\ PathIdle
    /\ platform = "linux"

SpecSrc == InitSrc /\ [][SrcNext]_vars

(***************************************************************************)
(* Properties of the compilation unit, checked under SpecSrc.              *)
(***************************************************************************)
\* C9: the compilation unit handed to the compiler is the header include
\* line, then for i = 0..n-1 in order one define of userdata_names[i] as
\* d->userdata[i], then the source body unchanged, then the declaration of
\* __fun; an argument that is neither a list nor a tuple is rejected with
\* nothing synthesized.
C9_CompilationUnit ==
    LET names == userdata_names.items
        n == Len(names)
        b == Len(function_string)
    IN  /\ spc = "set_source" =>
              /\ isinstance_list_or_tuple(userdata_names)
              /\ Len(source_string) = 1 + 5 * n + b + 1
              /\ source_string[1] = "#include <mujoco.h>\n"
              /\ \A k \in 0..(n - 1) :
                    /\ source_string[5 * k + 2] = "#define "
                    /\ source_string[5 * k + 3] = names[k + 1]
                    /\ source_string[5 * k + 4] = " d->userdata["
                    /\ source_string[5 * k + 5] = Digits[k + 1]
                    /\ source_string[5 * k + 6] = "]\n"
              /\ SubSeq(source_string, 5 * n + 2, 5 * n + 1 + b) = function_string
              /\ source_string[5 * n + b + 2] = "\nuintptr_t __fun = (uintptr_t) fun;"
        /\ ~isinstance_list_or_tuple(userdata_names) =>
              (spc \in {"assert", "AssertionError"} /\ source_string = <<>>)

\* Two names: both defines are in the unit
C9_Witness ==
    /\ spc = "set_source"
    /\ Len(userdata_names.items) = MaxNames
    /\ userdata_names.items[1] # userdata_names.items[MaxNames]

(***************************************************************************)
(* build_callback_fn, builder.py:397-492, and build_fn_cleanup, lines      *)
(* 383-394: one call per process, all in one working directory.  A process *)
(* that runs a callback build runs no extension builder (Builder[p] is     *)
(* "none").  The id of a file is the call whose function it holds.         *)
(***************************************************************************)
ascii_lowercase ==
    <<"a", "b", "c", "d", "e", "f", "g", "h", "i", "j", "k", "l", "m",
      "n", "o", "p", "q", "r", "s", "t", "u", "v", "w", "x", "y", "z">>

\* builder.py:467: range(15)
NameLen == 15

\* The letters the last draw of choice() comes from; the draws before it
\* give the first letter
MaxLetters == 2

\* builder.py:467: the values name can take
Names ==
    {fn_prefix \o [i \in 1..NameLen |->
                      IF i < NameLen THEN ascii_lowercase[1] ELSE ascii_lowercase[k]] :
     k \in 1..MaxLetters}

\* builder.py:481: the files ffibuilder.compile() writes for module name
c_file(name) == name \o <<".c">>

o_file(name) == name \o <<".o">>

FnFilesOf(name) ==
    {c_file(name), o_file(name), library_path(name),
     final_cext_dll_path(library_path(name)),
     tmp_final_cext_dll_path(library_path(name))}

FnPaths == UNION {FnFilesOf(n) : n \in Names}

startswith(f, prefix) ==
    Len(f) >= Len(prefix) /\ SubSeq(f, 1, Len(prefix)) = prefix

\* A listing by the prefix all module names share
glob_AnyModule(name) ==
    {f \in DOMAIN disk : disk[f].exists /\ startswith(f, fn_prefix)}

\* builder.py:389: glob.glob(name + '*')
glob(name) == {f \in DOMAIN disk : disk[f].exists /\ startswith(f, name)}

FnInit ==
    /\ platform \in {"linux", "darwin"}
    /\ disk = [f \in FnPaths |-> NoFile]
    /\ lock = 0
    /\ clock = 1
    /\ nbuilds = 0
    /\ pc = [p \in Procs |-> "fn_name"]
    /\ force = [p \in Procs |-> FALSE]
    /\ Builder = [p \in Procs |-> "none"]
    /\ mod = [p \in Procs |-> NoFile]
    /\ exc = [p \in Procs |-> "none"]
    /\ bid = [p \in Procs |-> 0]
    /\ step = [p \in Procs |-> 0]
    /\ hist = [p \in Procs |-> NoHist]
    /\ fname = [p \in Procs |-> <<>>]
    /\ pending = [p \in Procs |-> {}]
    /\ ptr = [p \in Procs |-> 0]
    /\ debug \in BOOLEAN
    /\ kept = [p \in Procs |-> FALSE]

\* What build_callback_fn leaves alone
fnFrame == <<srcVars, platVars, mlVars, pathVars, platform, lock, nbuilds, force, Builder, bid, hist>>

\* builder.py:465-478: the name is drawn and the source set
FnName(p) ==
    /\ pc[p] = "fn_name"
    /\ \E n \in Names : fname' = [fname EXCEPT ![p] = n]
    /\ pc' = [pc EXCEPT ![p] = "fn_compile"]
    /\ UNCHANGED <<fnFrame, disk, clock, mod, exc, step, pending, ptr, debug, kept>>

\* builder.py:481: ffibuilder.compile() writes the C source of the module
FnCompileStart(p) ==
    /\ pc[p] = "fn_compile"
    /\ disk' = [disk EXCEPT ![c_file(fname[p])] =
                   [exists |-> TRUE, complete |-> TRUE, fixes |-> {},
                    loads |-> FALSE, id |-> p, mtime |-> 0]]
    /\ pc' = [pc EXCEPT ![p] = "fn_compiling"]
    /\ UNCHANGED <<fnFrame, clock, mod, exc, step, fname, pending, ptr, debug, kept>>

\* builder.py:480-484 and 491: where build_fn_cleanup returns to: raise e of
\* line 484 when the compile exception is in flight, line 492 otherwise
AfterCleanup(p) == IF exc[p] # "none" THEN "raised" ELSE "fn_return"

\* builder.py:481-486: ffibuilder.compile() returns the library built from
\* the C source at the module's path, or raises; the except clause then
\* runs build_fn_cleanup
FnCompileEnd(p) ==
    /\ pc[p] = "fn_compiling"
    /\ \/ /\ disk[c_file(fname[p])].exists
          /\ \E l \in BOOLEAN :
                disk' = [disk EXCEPT
                           ![o_file(fname[p])] =
                               [disk[c_file(fname[p])] EXCEPT !.mtime = 0],
                           ![library_path(fname[p])] =
                               [exists |-> TRUE, complete |-> TRUE, fixes |-> {},
                                loads |-> l, id |-> disk[c_file(fname[p])].id,
                                mtime |-> Stamp(p)]]
          /\ clock' = Tick(p)
          /\ pc' = [pc EXCEPT ![p] = IF platform = "darwin" THEN "ml_check"
                                     ELSE "fn_load"]
          /\ exc' = exc
       \/ /\ exc' = [exc EXCEPT ![p] = "VerificationError"]
          /\ pc' = [pc EXCEPT ![p] = "fn_cleanup"]
          /\ UNCHANGED <<disk, clock>>
    /\ UNCHANGED <<fnFrame, mod, step, fname, pending, ptr, debug, kept>>

\* builder.py:488: move(fixed_library_path, library_path)
FnMove(p) ==
    /\ pc[p] = "fn_move"
    /\ IF disk[final_path(p)].exists
       THEN /\ disk' = [disk EXCEPT ![raw_path(p)] = disk[final_path(p)],
                                    ![final_path(p)] = NoFile]
            /\ pc' = [pc EXCEPT ![p] = "fn_load"]
            /\ exc' = exc
       ELSE /\ Raise(p, "FileNotFoundError")
            /\ disk' = disk
    /\ UNCHANGED <<fnFrame, clock, mod, step, fname, pending, ptr, debug, kept>>

\* A call that goes on to the cleanup without loading the library
FnLoad_Skip(p) ==
    /\ pc[p] = "fn_load"
    /\ pc' = [pc EXCEPT ![p] = "fn_cleanup"]
    /\ UNCHANGED <<fnFrame, disk, clock, mod, exc, step, fname, pending, ptr, debug,
                   kept>>

\* builder.py:489: load_dynamic_ext(name, library_path)
FnLoad(p) ==
    /\ pc[p] = "fn_load"
    /\ IF CanLoad(disk[library_path(fname[p])])
       THEN /\ mod' = [mod EXCEPT ![p] = disk[library_path(fname[p])]]
            /\ pc' = [pc EXCEPT ![p] = "fn_cleanup"]
            /\ exc' = exc
       ELSE /\ Raise(p, "ImportError")
            /\ mod' = mod
    /\ UNCHANGED <<fnFrame, disk, clock, step, fname, pending, ptr, debug, kept>>

\* builder.py:388-389: the flag is read and the files of the name listed
build_fn_cleanup(p) ==
    /\ pc[p] = "fn_cleanup"
    /\ IF debug \/ glob(fname[p]) = {}
       THEN /\ pc' = [pc EXCEPT ![p] = AfterCleanup(p)]
            /\ pending' = pending
       ELSE /\ pc' = [pc EXCEPT ![p] = "fn_rm"]
            /\ pending' = [pending EXCEPT ![p] = glob(fname[p])]
    /\ UNCHANGED <<fnFrame, disk, clock, mod, exc, step, fname, ptr, debug, kept>>

\* builder.py:390-394: os.remove(f) for the next listed file.  It removes
\* the file; or the system refuses to remove a library (PermissionError,
\* printed, the loop goes on); or the file is gone (FileNotFoundError,
\* which no clause catches)
FnRemove(p) ==
    /\ pc[p] = "fn_rm"
    /\ \E f \in pending[p] :
          LET next == IF pending[p] = {f} THEN AfterCleanup(p) ELSE "fn_rm"
          IN  \/ /\ disk[f].exists
                 /\ disk' = [disk EXCEPT ![f] = NoFile]
                 /\ pending' = [pending EXCEPT ![p] = @ \ {f}]
                 /\ pc' = [pc EXCEPT ![p] = next]
                 /\ UNCHANGED <<exc, kept>>
              \/ /\ disk[f].exists /\ f = library_path(fname[p])
                 /\ kept' = [kept EXCEPT ![p] = TRUE]
                 /\ pending' = [pending EXCEPT ![p] = @ \ {f}]
                 /\ pc' = [pc EXCEPT ![p] = next]
                 /\ UNCHANGED <<disk, exc>>
              \/ /\ ~disk[f].exists
                 /\ Raise(p, "FileNotFoundError")
                 /\ pending' = [pending EXCEPT ![p] = {}]
                 /\ UNCHANGED <<disk, kept>>
    /\ UNCHANGED <<fnFrame, clock, mod, step, fname, ptr, debug>>

\* builder.py:492: return module.lib.__fun
FnReturn(p) ==
    /\ pc[p] = "fn_return"
    /\ ptr' = [ptr EXCEPT ![p] = mod[p].id]
    /\ pc' = [pc EXCEPT ![p] = "done"]
    /\ UNCHANGED <<fnFrame, disk, clock, mod, exc, step, fname, pending, debug, kept>>

FnNext ==
    \E p \in Procs :
        \/ FnName(p)
        \/ FnCompileStart(p)
        \/ FnCompileEnd(p)
        \/ ml_check(p)
        \/ ml_copy_start(p)
        \/ ml_copy_end(p)
        \/ ml_install_name_tool(p)
        \/ ml_rename(p)
        \/ FnMove(p)
        \/ FnLoad(p)
        \/ build_fn_cleanup(p)
        \/ FnRemove(p)
        \/ FnReturn(p)

InitFn == FnInit /\ SrcIdle /\ PlatIdle /\ MlIdle /\ PathIdle

SpecFn == InitFn /\ [][FnNext]_vars

(***************************************************************************)
(* Properties of build_callback_fn, checked under SpecFn.                  *)
(***************************************************************************)
\* No other call has drawn the module name of call p
OwnName(p) == \A q \in Procs \ {p} : fname[q] # fname[p]

\* C7: without the debug flag, once a call of build_callback_fn has
\* finished, by returning or by raising at any step, no file whose name
\* starts with its module name is on disk, except a file whose removal the
\* system refused; such a refusal is not raised to the caller.  Stated for
\* the calls whose module name no other call has drawn.
C7_NoFileRemains ==
    \A p \in Procs :
        (Finished_call(p) /\ ~debug /\ OwnName(p))
        => /\ glob(fname[p]) \subseteq
                 (IF kept[p] THEN {library_path(fname[p])} ELSE {})
           /\ exc[p] # "PermissionError"

\* C8: any two invocations of build_callback_fn have distinct module names,
\* no invocation loads a library compiled from another invocation's source,
\* and a pointer that is returned is a pointer to the invocation's own
\* function.
C8_NoCollision ==
    /\ \A p, q \in Procs :
          (p # q /\ fname[p] # <<>> /\ fname[q] # <<>>) => fname[p] # fname[q]
    /\ \A p \in Procs :
          /\ mod[p].exists => mod[p].id = p
          /\ pc[p] = "done" => ptr[p] = p

(***************************************************************************)
(* manually_link_libraries, builder.py:158-193, called on its own: every   *)
(* process calls it on the raw output of the Mac builder, once and again,  *)
(* and no lock serialises the calls.  A call has returned when its process *)
(* stands where the caller goes on (line 223); an exception leaves the     *)
(* process on its way out to the caller.                                   *)
(***************************************************************************)
\* Invocations per process
MaxCalls == 2

raw_mac == built_so_file_path("macextensionbuilder")

\* The raw output of the toolchain, written at time 1
RawArtifact ==
    [exists |-> TRUE, complete |-> TRUE, fixes |-> {}, loads |-> TRUE,
     id |-> 0, mtime |-> 1]

\* A final file earlier invocations left: none, one made from an older raw
\* file, or one made from this raw file within the clock's resolution
InitialFinals ==
    {NoFile,
     [RawArtifact EXCEPT !.fixes = Range(MacFixes), !.mtime = 0],
     [RawArtifact EXCEPT !.fixes = Range(MacFixes), !.mtime = 1]}

MlInit ==
    /\ platform = "darwin"
    /\ \E f \in InitialFinals :
          disk = [q \in Paths |->
                     IF q = raw_mac THEN RawArtifact
                     ELSE IF q = final_cext_dll_path(raw_mac) THEN f
                     ELSE NoFile]
    /\ lock = 0
    /\ clock = 2
    /\ nbuilds = 0
    /\ pc = [p \in Procs |-> "ml_check"]
    /\ force = [p \in Procs |-> FALSE]
    /\ Builder = [p \in Procs |-> "macextensionbuilder"]
    /\ mod = [p \in Procs |-> NoFile]
    /\ exc = [p \in Procs |-> "none"]
    /\ bid = [p \in Procs |-> 0]
    /\ step = [p \in Procs |-> 0]
    /\ hist = [p \in Procs |-> NoHist]
    /\ returned = [p \in Procs |-> 0]

\* builder.py:167 and 193: return final_cext_dll_path; the caller calls again
MlReturn(p) ==
    /\ pc[p] = AfterFixup(p)
    /\ returned' = [returned EXCEPT ![p] = @ + 1]
    /\ pc' = [pc EXCEPT ![p] = IF returned[p] + 1 < MaxCalls THEN "ml_check"
                               ELSE "done"]
    /\ step' = NoLocals(step, p)
    /\ UNCHANGED <<fnVars, srcVars, platVars, pathVars, platform, disk, lock, clock,
                   nbuilds, force, Builder, mod, exc, bid, hist>>

MlNext ==
    \E p \in Procs :
        \/ ml_check(p)
        \/ ml_copy_start(p)
        \/ ml_copy_end(p)
        \/ ml_install_name_tool(p)
        \/ ml_rename(p)
        \/ MlReturn(p)

InitMl == MlInit /\ FnIdle /\ SrcIdle /\ PlatIdle /\ PathIdle

SpecMl == InitMl /\ [][MlNext]_vars

(***************************************************************************)
(* Properties of manually_link_libraries, checked under SpecMl.            *)
(***************************************************************************)
\* C11: an invocation of manually_link_libraries that follows a returned
\* invocation of the same process on the same unchanged raw file is skipped
\* entirely: its only steps are the test of lines 165-166 and the return of
\* the final path, it copies nothing and calls no tool, it raises nothing,
\* and none of its steps changes a file, the raw and the final one included.
C11_SecondCallSkipped ==
    [][\A p \in Procs :
          (returned[p] >= 1 /\ pc'[p] # pc[p])
          => /\ pc[p] \in {"ml_check", "move"}
             /\ pc'[p] \in {"ml_check", "move", "done"}
             /\ disk' = disk
             /\ exc'[p] = "none"]_vars

\* A process whose first invocation made the final file stands at the return
\* of its second invocation
C11_Witness ==
    \E p \in Procs :
        /\ returned[p] = 1 /\ pc[p] = "move"
        /\ disk[final_path(p)].fixes = Range(MacFixes)
        /\ disk[final_path(p)].mtime > disk[raw_path(p)].mtime
        /\ \A q \in Procs \ {p} : pc[q] = "ml_check" /\ returned[q] = 0

(***************************************************************************)
(* Further properties of load_cython_ext, checked under Spec.              *)
(***************************************************************************)
\* The file is one that load_dynamic_ext loads
Loadable(f) == f.exists /\ f.complete /\ f.loads

\* C12: a call without the force-rebuild flag that finds a loadable artifact
\* at the canonical path, at its test of line 100 and at its load of line
\* 102, returns the module loaded from that artifact; it has not held the
\* build lock, has invoked no builder, and its steps leave the canonical
\* artifact, every other file, the lock and the count of builds as they are.
C12_CacheHit ==
    [][\A p \in Procs :
          ( /\ ~force[p] /\ pc[p] \in {"exists", "load"}
            /\ Loadable(disk[cext_so_path(p)])
            /\ pc'[p] # pc[p] )
          => /\ pc[p] = "exists" => pc'[p] = "load"
             /\ pc[p] = "load" =>
                   (pc'[p] = "done" /\ mod'[p] = disk[cext_so_path(p)])
             /\ UNCHANGED <<disk, lock, nbuilds>>
             /\ lock # p /\ hist[p].builds = 0 /\ hist[p].removed = "no"
             /\ hist'[p].builds = 0 /\ hist'[p].removed = "no"]_vars

\* A call has returned the module of the artifact it found, while another
\* process holds the build lock
C12_Witness ==
    \E p, q \in Procs :
        /\ ~force[p] /\ pc[p] = "done" /\ hist[p].builds = 0
        /\ hist[p].found = "present" /\ mod[p].exists
        /\ mod[p] = disk[cext_so_path(p)]
        /\ q # p /\ lock = q

(***************************************************************************)
(* One whole call of load_cython_ext, builder.py:44-109: the platform      *)
(* switch of lines 65-82, then the builder's construction and the build    *)
(* and load of lines 84-109.  One process makes the call.                  *)
(***************************************************************************)
Caller == 1

\* The search-path entries and driver directories of the machines a whole
\* call is run on
CallEntries == {lib_path, docker_path, NvidiaDir(<<"4", "5", "0">>)}

CallInit ==
    /\ PlatInit
    /\ usr_dirs \subseteq {docker_path, NvidiaDir(<<"4", "5", "0">>)}
    /\ environ.LD_LIBRARY_PATH # <<"unset">> =>
          \A i \in 1..Len(environ.LD_LIBRARY_PATH) :
              environ.LD_LIBRARY_PATH[i] \in CallEntries
    /\ disk \in InitialDisks(platform)
    /\ lock = 0
    /\ clock = 1
    /\ nbuilds = 0
    /\ pc = [p \in Procs |-> "idle"]
    /\ force \in [Procs -> BOOLEAN]
    /\ \A p \in Procs \ {Caller} : ~force[p]
    /\ Builder = [p \in Procs |-> "none"]
    /\ mod = [p \in Procs |-> NoFile]
    /\ exc = [p \in Procs |-> "none"]
    /\ bid = [p \in Procs |-> 0]
    /\ step = [p \in Procs |-> 0]
    /\ hist = [p \in Procs |-> NoHist]

\* A call that constructs its builder and goes on before the platform switch
\* has returned
BuilderConstruct_Eager ==
    /\ rpc # "constructed" /\ pc[Caller] = "idle"
    /\ Builder' = [Builder EXCEPT ![Caller] =
                      IF resolved \in BuilderNames THEN resolved
                      ELSE "linuxcpuextensionbuilder"]
    /\ pc' = [pc EXCEPT ![Caller] = IF force[Caller] THEN "rm_lock" ELSE "exists"]
    /\ rpc' = "constructed"
    /\ UNCHANGED <<fnVars, srcVars, mlVars, pathVars, platform, environ, nvidia_smi,
                   usr_dirs, resolved, disk, lock, clock, nbuilds, force, mod, exc,
                   bid, step, hist>>

\* builder.py:84-91: the switch has returned a class; the builder is
\* constructed, the lock path set and the force-rebuild flag read
BuilderConstruct ==
    /\ rpc = "done" /\ pc[Caller] = "idle"
    /\ Builder' = [Builder EXCEPT ![Caller] = resolved]
    /\ pc' = [pc EXCEPT ![Caller] = IF force[Caller] THEN "rm_lock" ELSE "exists"]
    /\ rpc' = "constructed"
    /\ UNCHANGED <<fnVars, srcVars, mlVars, pathVars, platform, environ, nvidia_smi,
                   usr_dirs, resolved, disk, lock, clock, nbuilds, force, mod, exc,
                   bid, step, hist>>

CallNext ==
    \/ PlatNext
    \/ BuilderConstruct
    \/ LoadNext

InitCall == CallInit /\ FnIdle /\ SrcIdle /\ MlIdle /\ PathIdle

SpecCall == InitCall /\ [][CallNext]_vars

(***************************************************************************)
(* Properties of a whole call, checked under SpecCall.                     *)
(***************************************************************************)
\* The platform is supported and the library-search-path variable of its
\* branch holds the library's binary directory and, where the GPU variant is
\* chosen, the driver directory
ConfigOK ==
    CASE platform = "darwin" -> TRUE
      [] platform = "linux" ->
            /\ ensure_ok(environ.LD_LIBRARY_PATH, lib_path)
            /\ (environ.MUJOCO_PY_FORCE_CPU = "unset" /\ Discovered # None)
                  => ensure_ok(environ.LD_LIBRARY_PATH, Discovered)
      [] platform = "win32" -> windows_ok(environ.PATH)
      [] OTHER -> FALSE

\* C13: a configuration error is raised before any build attempt.  The
\* platform switch raises exactly when the platform is unsupported or the
\* search-path variable lacks a required directory; a call that has raised
\* there does nothing more; and until the switch has returned a class no
\* step of the call takes the lock, removes or writes a file, loads a module
\* or starts a build.
C13_ConfigErrorFirst ==
    [][ /\ rpc' = "raised" => ~ConfigOK
        /\ rpc' = "done" => ConfigOK
        /\ rpc = "raised" => rpc' = "raised"
        /\ rpc \in {"switch", "variant", "raised"} =>
              /\ UNCHANGED <<disk, lock, nbuilds, mod, pc, hist>>
              /\ lock = 0 /\ nbuilds = 0
              /\ \A p \in Procs : pc[p] = "idle" /\ mod[p] = NoFile ]_vars

\* On Linux the variable lacks the driver directory of the GPU variant, an
\* artifact lies at a canonical path and the flag asks for a rebuild: the
\* call has raised, and the artifact and the lock are as they were
C13_Witness ==
    /\ rpc = "raised" /\ platform = "linux"
    /\ ensure_ok(environ.LD_LIBRARY_PATH, lib_path)
    /\ force[Caller]
    /\ disk[get_so_file_path("linuxgpuextensionbuilder")].exists
    /\ lock = 0 /\ pc[Caller] = "idle"

(***************************************************************************)
(* The paths of a builder: MujocoExtensionBuilder.__init__, build_base,    *)
(* _build_impl and get_so_file_path, builder.py:200-203 and 227-252, as    *)
(* functions of the library version, the interpreter's version and the     *)
(* builder's class.  A text is a sequence of pieces; a version is one      *)
(* piece per character.  Two builders are constructed.                     *)
(***************************************************************************)
\* mujoco_py.version.get_version(): the versions a library may have
Versions ==
    {<<"2", ".", "0", ".", "2", ".", "5">>, <<"2", ".", "0", ".", "2">>,
     <<"2", ".", "0", ".", "2", "5">>}

\* sys.version_info.major and .minor
Majors == {2, 3}

Minors == {1, 8, 10}

\* The builder classes of builder.py:196-336
ClassNames ==
    {"MujocoExtensionBuilder", "WindowsExtensionBuilder",
     "LinuxCPUExtensionBuilder", "LinuxGPUExtensionBuilder", "MacExtensionBuilder"}

\* builder.py:228: self.__class__.__name__.lower()
lower(cls) ==
    CASE cls = "MujocoExtensionBuilder"   -> "mujocoextensionbuilder"
      [] cls = "WindowsExtensionBuilder"  -> "windowsextensionbuilder"
      [] cls = "LinuxCPUExtensionBuilder" -> "linuxcpuextensionbuilder"
      [] cls = "LinuxGPUExtensionBuilder" -> "linuxgpuextensionbuilder"
      [] cls = "MacExtensionBuilder"      -> "macextensionbuilder"

Configs == [ver : Versions, major : Majors, minor : Minors, cls : ClassNames]

\* An interpreter version that leaves the minor number out
python_version_of_MajorOnly(major, minor) == str(major)

\* builder.py:202 and 251: str(major) + str(minor)
python_version_of(major, minor) == str(major) \o str(minor)

\* builder.py:203: '%s_%s_%s' % (get_version(), python_version, build_base())
version_of(c) ==
    c.ver \o <<"_">> \o python_version_of(c.major, c.minor) \o <<"_">>
          \o <<lower(c.cls)>>

\* builder.py:249-252
so_file_path_of(c) ==
    <<"generated/", "cymj_">> \o version_of(c) \o <<"_">>
        \o python_version_of(c.major, c.minor) \o <<".so">>

\* builder.py:241-242: build.build_base, the scratch directory
build_dir_of(c) == <<"generated/", "_pyxbld_">> \o version_of(c)

Builders == 1..2

\* The paths of a builder that is not constructed yet
NoLayout == [so |-> <<>>, dir |-> <<>>]

PathInit ==
    /\ config \in [Builders -> Configs]
    /\ layout = [i \in Builders |-> NoLayout]
    /\ platform = "linux"

\* builder.py:200-203 and 241-252: builder i is constructed and asked for its
\* artifact path and its scratch directory
Construct(i) ==
    /\ layout[i] = NoLayout
    /\ layout' = [layout EXCEPT ![i] = [so |-> so_file_path_of(config[i]),
                                       dir |-> build_dir_of(config[i])]]
    /\ UNCHANGED <<loadVars, fnVars, srcVars, platVars, mlVars, config>>

PathNext == \E i \in Builders : Construct(i)

InitPath == PathInit /\ LoadIdle /\ FnIdle /\ SrcIdle /\ PlatIdle /\ MlIdle

SpecPath == InitPath /\ [][PathNext]_vars

(***************************************************************************)
(* Properties of the paths, checked under SpecPath.                        *)
(***************************************************************************)
\* C14: the artifact path and the scratch directory of a builder are a
\* function of its library version, interpreter version and class; two
\* builders that differ in any of the three get different artifact paths
\* and different scratch directories, two builders that agree in all three
\* get the same ones.
C14_PathsInjective ==
    (layout[1] # NoLayout /\ layout[2] # NoLayout)
    => /\ (config[1] = config[2]) <=> (layout[1].so = layout[2].so)
       /\ (config[1] = config[2]) <=> (layout[1].dir = layout[2].dir)
       /\ layout[1].so # layout[2].dir

\* Two builders that differ only in the interpreter's minor version, 1 and
\* 10, have both been constructed
C14_Witness ==
    /\ layout[1] # NoLayout /\ layout[2] # NoLayout
    /\ config[1].minor = 1 /\ config[2].minor = 10
    /\ config[1] = [config[2] EXCEPT !.minor = 1]
    /\ layout[1].so # layout[2].so

(***************************************************************************)
(* Properties of the build lock, checked under Spec.                       *)
(***************************************************************************)
\* Process p is inside one of the two with LockFile blocks
InWith(p) ==
    InBuild(p) \/ pc[p] \in {"rm", "rm_unlock", "build", "load_built",
                             "with_exit", "unwind"}

\* C15: the build lock is released on every exit path: a process whose call
\* of load_cython_ext has finished, by returning a module or by raising,
\* does not hold the lock; the lock is held only by a process that is inside
\* one of the two with blocks.
C15_LockReleased ==
    \A p \in Procs :
        /\ Finished_call(p) => lock # p
        /\ lock = p => InWith(p)

\* A fixup or the toolchain failed in one process's build and the load of
\* the fresh artifact failed in another's; both calls have raised and the
\* lock is free
C15_Witness ==
    \E p, q \in Procs :
        /\ pc[p] = "raised" /\ exc[p] \in ToolchainFailures /\ hist[p].builds = 1
        /\ pc[q] = "raised" /\ exc[q] = "ImportError" /\ hist[q].builds = 1
        /\ lock = 0

(***************************************************************************)
(* Further properties of build_callback_fn, checked under SpecFn.          *)
(***************************************************************************)
\* The cleanup of line 491 has started in call p
InCleanup(p) == exc[p] = "none" /\ pc[p] \in {"fn_rm", "fn_return", "done"}

\* The files of call p's name are gone, but for a library whose removal the
\* system refused
FilesGone(p) ==
    glob(fname[p]) \subseteq (IF kept[p] THEN {library_path(fname[p])} ELSE {})

C17_RaceSafe ==
    /\ LET f == disk[final_cext_dll_path(raw_mac)]
       IN  f.exists => (f.complete /\ f.fixes = Range(MacFixes))
    /\ \A p \in Procs : exc[p] # "FileNotFoundError"

(***************************************************************************)
(* Termination of load_cython_ext, checked under SpecFair.                 *)
(***************************************************************************)
\* C18: every call of load_cython_ext eventually returns a module or raises,
\* whatever the processes' force-rebuild flags; no process waits for the build
\* lock while holding it; and in every state where some call has not finished
\* some process can take a step.
C18_EveryCallFinishes ==
    /\ [](\A p \in Procs : pc[p] \in {"rm_lock", "build_lock"} => lock # p)
    /\ []((\E p \in Procs : ~Finished_call(p)) => ENABLED Next)
    /\ \A p \in Procs : <>[](/\ Finished_call(p)
                            /\ (pc[p] = "done") = mod[p].exists
                            /\ (pc[p] = "raised") = (exc[p] # "none"))

\* Two processes with the force-rebuild flag have both taken the lock twice
\* and finished
C18_Witness ==
    /\ \A p \in Procs : force[p] /\ Finished_call(p) /\ hist[p].builds = 1
    /\ \E p \in Procs : pc[p] = "done"
    /\ lock = 0

\* Process p has just removed the old artifact, k builds having started
JustRemoved(p, k) == force[p] /\ pc[p] = "rm_unlock" /\ nbuilds = k

\* What process p finds at its canonical path, and what it has loaded, comes
\* from a build that started after the first k builds
Fresh(p, k) ==
    /\ disk[cext_so_path(p)].exists => disk[cext_so_path(p)].id > k
    /\ mod[p].exists => mod[p].id > k
    /\ pc[p] = "done" => mod[p].exists

\* C19: once a call with the force-rebuild flag has removed the old
\* artifact, the file at its canonical path and the module the call returns
\* come, from then on, from a build that started after the removal; the call
\* never returns the artifact that was at the path before the removal.
C19_NeverStale ==
    \A p \in Procs : \A k \in 0..NProcs :
        [](JustRemoved(p, k) => []Fresh(p, k))

\* A forced call removed an artifact and returned the module of the second
\* or a later build
C19_Witness ==
    \E p \in Procs :
        /\ force[p] /\ pc[p] = "done"
        /\ hist[p].removed = "removed"
        /\ mod[p].id >= 2

(***************************************************************************)
(* The frame of build_fn_cleanup, checked under SpecFn.                    *)
(***************************************************************************)
\* The files of the calls whose module name differs from that of call p
FilesOfOthers(p) ==
    UNION {FnFilesOf(fname[q]) : q \in {r \in Procs : fname[r] \notin {<<>>, fname[p]}}}

\* Process p takes a step of the removal loop of build_fn_cleanup
CleanupStep(p) == pc[p] = "fn_rm" /\ pending'[p] # pending[p]

\* C20: every module name is '_fn_' followed by exactly 15 letters, so no
\* module name is a proper prefix of another; the files build_fn_cleanup
\* lists for one call all start with the call's module name and none belongs
\* to a call with a different module name; a step of its removal loop deletes
\* nothing but files of that list; with the debug flag set it lists and
\* deletes nothing.
C20_CleanupFrame ==
    /\ [](\A p \in Procs :
            /\ fname[p] # <<>> =>
                  /\ Len(fname[p]) = Len(fn_prefix) + NameLen
                  /\ startswith(fname[p], fn_prefix)
                  /\ \A q \in Procs :
                        (fname[q] # <<>> /\ startswith(fname[q], fname[p]))
                        => fname[q] = fname[p]
            /\ \A f \in pending[p] : startswith(f, fname[p])
            /\ pending[p] \cap FilesOfOthers(p) = {}
            /\ debug => (pc[p] # "fn_rm" /\ pending[p] = {}))
    /\ [][\A p \in Procs :
            CleanupStep(p) =>
               \A f \in DOMAIN disk :
                  (disk[f].exists /\ ~disk'[f].exists)
                  => (~debug /\ f \in pending[p] /\ f \notin FilesOfOthers(p))]_vars

\* One call has cleaned up and its files are gone while the files of a call
\* with another module name are all there
C20_Witness ==
    \E p, q \in Procs :
        /\ ~debug
        /\ fname[p] # <<>> /\ fname[q] # <<>> /\ fname[p] # fname[q]
        /\ pc[p] = "done" /\ glob(fname[p]) = {}
        /\ pc[q] = "fn_load"
        /\ {c_file(fname[q]), o_file(fname[q]), library_path(fname[q])}
              \subseteq glob(fname[q])

====
